---- MODULE Spec2Model ----
(***************************************************************************)
(* Interactive-session REST API of the REANA workflow controller           *)
(* (reana_workflow_controller/rest/workflows_session.py).                  *)
(*                                                                         *)
(* Every HTTP request is an independent unit of work running one of the    *)
(* two handlers, open_interactive_session or close_interactive_session,    *)
(* against the shared Session Record Store (the workflows' session         *)
(* records) and the Orchestration Backend (KubernetesWorkflowRunManager).  *)
(* A handler is cut into atomic steps at the points where it reads or      *)
(* writes the shared store; the statements between two such points only    *)
(* touch the request's own local variables. The requests being served are  *)
(* a bag: the workers of the server are interchangeable.                   *)
(***************************************************************************)
EXTENDS Integers, Sequences, FiniteSets, Bags, TLC

(* ------------------------------------------------------------------ *)
(* Bounds of the model                                                 *)
(* ------------------------------------------------------------------ *)

\* Requests served at the same time (the workers of the server).
MaxWorkers == 2

\* Requests that arrive during one behaviour.
MaxReqs == 4

(* ------------------------------------------------------------------ *)
(* The world the handlers run in                                       *)
(* ------------------------------------------------------------------ *)

\* Workflows of the record store and the users owning them.
Workflows == {"W1", "W2"}
Users == {"U1", "U2"}
owner == [w \in Workflows |-> IF w = "W1" THEN "U1" ELSE "U2"]

\* Workflow references clients send: the workflows' and one of no workflow.
RefInputs == Workflows \cup {"W0"}

\* The request of close without the "user" query parameter.
NoUser == "<missing>"

\* reana_db.models.RunStatus, the values the handlers distinguish.
RunStatus == {"running", "deleted"}

\* reana_db.models.InteractiveSessionType: the member names, in definition order.
InteractiveSessionType == <<"jupyter">>

\* Session types clients send: the member and the docstring's misspelt one.
SessionTypeInputs == {"jupyter", "terminl"}

\* Optional "image" field of the JSON body of open (None when absent).
NoImage == "None"
ImageInputs == {NoImage, "img"}

\* Session identifiers the backend generates: 1, 2, ...; 0 is "no session".
NoSession == 0

\* States of the handlers' local variable `workflow`.
Unbound == "<unbound>"
None == "<None>"

(* ------------------------------------------------------------------ *)
(* Responses                                                           *)
(* ------------------------------------------------------------------ *)

\* jsonify({key: ...}), status: the body has one key, "path" or "message";
\* a message is its text with the values formatted into it, a path is the
\* access path of the session.
NoPath == <<>>

Message(status, text, args) ==
    [status |-> status, key |-> "message", text |-> text, args |-> args, path |-> NoPath]

Path(status, access_path) ==
    [status |-> status, key |-> "path", text |-> "", args |-> <<>>, path |-> access_path]

\* An exception that leaves the handler: no response is built by it.
Propagated(cls) ==
    [status |-> 0, key |-> "", text |-> cls, args |-> <<>>, path |-> NoPath]

NoResponse == [status |-> -1, key |-> "", text |-> "", args |-> <<>>, path |-> NoPath]

\* Exceptions are their class and str(e).
Exc(cls, text, args) == [cls |-> cls, text |-> text, args |-> args]

VARIABLES
    sessions,   \* Session Record Store: workflow -> set of session ids
    status,     \* Session Record Store: workflow -> RunStatus
    nextId,     \* Backend: next session identifier to generate
    req,        \* bag of the requests being served: inputs, position, locals, response
    arrived,    \* number of requests that have arrived
    provisions, \* history: workflow -> number of provision calls for it
    teardowns,  \* history: session id -> number of teardown calls for it
    lastOp,     \* history: workflow -> outcome of the last backend call for it
    lastOk      \* history: workflow -> the last operation that succeeded for it

vars == <<sessions, status, nextId, req, arrived, provisions, teardowns, lastOp,
          lastOk>>

(* ------------------------------------------------------------------ *)
(* A request                                                           *)
(* ------------------------------------------------------------------ *)

\* A request as it arrives: nothing run, nothing assigned.
Idle ==
    [op |-> "none", pc |-> "idle",
     workflow_id_or_name |-> "", user |-> "", interactive_session_type |-> "",
     image |-> NoImage,
     workflow |-> Unbound, int_session |-> NoSession,
     resp |-> NoResponse,
     resolves |-> 0, calls |-> <<>>, raised |-> "",
     afterClose |-> FALSE, lookup |-> "none"]

\* The handler returns: the request is answered (or its exception propagated).
Return(q, response) == [q EXCEPT !.pc = "done", !.resp = response]

(* ------------------------------------------------------------------ *)
(* Collaborators                                                       *)
(* ------------------------------------------------------------------ *)

\* Whether the record store answers the resolve query or fails on it.
StoreOutcomes == {"up", "down"}

\* reana_db.utils._get_workflow_with_uuid_or_name(workflow_id_or_name, user_uuid):
\* the workflow of that reference owned by that user; ValueError when there is
\* none; any other exception when the store cannot be queried.
get_workflow_with_uuid_or_name(ref, user_uuid, store) ==
    IF store = "down"
    THEN [raised |-> TRUE, workflow |-> None,
          exc |-> Exc("Exception", "database error", <<>>)]
    ELSE IF ref \in Workflows /\ owner[ref] = user_uuid
    THEN [raised |-> FALSE, workflow |-> ref, exc |-> Exc("", "", <<>>)]
    ELSE [raised |-> TRUE, workflow |-> None,
          exc |-> Exc("ValueError", "Workflow {} does not exist", <<ref>>)]

\* workflow.sessions.first(): the values the query can return, a session of the
\* workflow (the query has no ORDER BY: any of them) or None.
first(w) == IF sessions[w] = {} THEN {NoSession} ELSE sessions[w]

\* Outcomes of a backend call: success, or an exception of one of the classes
\* the handlers tell apart.
BackendErrors == {"ValueError", "Exception"}

\* The access path of a session: rooted at its generated identifier.
AccessPath(id) == <<"/", id>>

\* KubernetesWorkflowRunManager(workflow).start_interactive_session(type, image):
\* on success the backend persists a new Session record of the workflow and
\* returns its access path. A failed call raises; it leaves no record when the
\* backend creates transactionally, and may leave one when it does not.
start_interactive_session(w, outcome, orphan) ==
    IF outcome = "ok" \/ orphan
    THEN [sessions |-> [sessions EXCEPT ![w] = @ \cup {nextId}],
          nextId |-> nextId + 1,
          access_path |-> AccessPath(nextId)]
    ELSE [sessions |-> sessions, nextId |-> nextId, access_path |-> NoPath]

\* KubernetesWorkflowRunManager(workflow).stop_interactive_session(id): on
\* success the backend removes the Session record; a failed call leaves it.
\* A call for a record that is gone cannot succeed.
stop_outcomes(w, id) ==
    IF id \in sessions[w] THEN {"ok"} \cup BackendErrors ELSE BackendErrors

stop_interactive_session(w, id, outcome) ==
    IF outcome = "ok" THEN [sessions EXCEPT ![w] = @ \ {id}] ELSE sessions

(* ------------------------------------------------------------------ *)
(* open_interactive_session                                            *)
(* ------------------------------------------------------------------ *)

\* [e.name for e in InteractiveSessionType]
member_names == InteractiveSessionType

\* interactive_session_type not in InteractiveSessionType.__members__
unknown_session_type(t) == \A i \in DOMAIN InteractiveSessionType : InteractiveSessionType[i] # t

\* The 404 of an unknown session type: the rejected value, then the members.
unknown_type_response(t) ==
    Message(404,
            "Interactive session type {} not found, try with one of: {}",
            <<t>> \o member_names)

already_open_response == Message(404, "Interactive session is already open", <<>>)

deleted_response ==
    Message(404, "Interactive session can't be opened from a deleted workflow", <<>>)

\* The except clauses of open_interactive_session. `workflow` is assigned by
\* the resolve call only: read before that, the name is unbound, and the
\* UnboundLocalError raised inside the except clause leaves the handler.
open_except(e, workflow) ==
    IF e.cls \in {"KeyError", "ValueError"}
    THEN IF workflow = Unbound
         THEN Propagated("UnboundLocalError")
         ELSE Message(IF workflow # None THEN 400 ELSE 404, e.text, e.args)
    ELSE Message(500, e.text, e.args)

\* open_resolve with the two statements swapped: the workflow is resolved
\* before the session type is looked at.
open_resolve_before_type(q, store) ==
    LET res == get_workflow_with_uuid_or_name(q.workflow_id_or_name, q.user, store)
        q1 == [q EXCEPT !.resolves = @ + 1]
    IN  IF res.raised
        THEN Return([q1 EXCEPT !.raised = res.exc.cls],
                    open_except(res.exc, q1.workflow))
        ELSE IF unknown_session_type(q.interactive_session_type)
        THEN Return([q1 EXCEPT !.workflow = res.workflow],
                    unknown_type_response(q.interactive_session_type))
        ELSE [q1 EXCEPT !.workflow = res.workflow, !.pc = "open_check"]

\* open_resolve that resolves the reference for whoever owns the workflow,
\* not for the user of the request.
open_resolve_any_owner(q, store) ==
    IF unknown_session_type(q.interactive_session_type)
    THEN Return(q, unknown_type_response(q.interactive_session_type))
    ELSE LET user_uuid == IF q.workflow_id_or_name \in Workflows
                          THEN owner[q.workflow_id_or_name] ELSE q.user
             res == get_workflow_with_uuid_or_name(q.workflow_id_or_name, user_uuid, store)
             q1 == [q EXCEPT !.resolves = @ + 1]
         IN  IF res.raised
             THEN Return([q1 EXCEPT !.raised = res.exc.cls],
                         open_except(res.exc, q1.workflow))
             ELSE [q1 EXCEPT !.workflow = res.workflow, !.pc = "open_check"]

\* Lines 118-125: the session type is checked, then the workflow is resolved.
open_resolve(q, store) ==
    IF unknown_session_type(q.interactive_session_type)
    THEN Return(q, unknown_type_response(q.interactive_session_type))
    ELSE LET res == get_workflow_with_uuid_or_name(q.workflow_id_or_name, q.user, store)
             q1 == [q EXCEPT !.resolves = @ + 1]
         IN  IF res.raised
             THEN Return([q1 EXCEPT !.raised = res.exc.cls],
                         open_except(res.exc, q1.workflow))
             ELSE [q1 EXCEPT !.workflow = res.workflow, !.pc = "open_check"]

\* open_check holding a per-workflow lock: a request is also turned away
\* while another open request for the workflow is past its check.
open_check_locked(q, found, wf_status) ==
    IF found # NoSession
       \/ \E p \in BagToSet(req) : /\ p.pc = "open_provision"
                                   /\ p.workflow = q.workflow
    THEN Return(q, already_open_response)
    ELSE IF wf_status = "deleted"
    THEN Return(q, deleted_response)
    ELSE [q EXCEPT !.pc = "open_provision"]

\* open_check with the two tests in the other order.
open_check_status_first(q, found, wf_status) ==
    IF wf_status = "deleted"
    THEN Return(q, deleted_response)
    ELSE IF found # NoSession
    THEN Return(q, already_open_response)
    ELSE [q EXCEPT !.pc = "open_provision"]

\* open_check without the test of the workflow's status.
open_check_no_status(q, found, wf_status) ==
    IF found # NoSession
    THEN Return(q, already_open_response)
    ELSE [q EXCEPT !.pc = "open_provision"]

\* open_check without the test of the session lookup's result.
open_check_no_lookup(q, found, wf_status) ==
    IF wf_status = "deleted"
    THEN Return(q, deleted_response)
    ELSE [q EXCEPT !.pc = "open_provision"]

\* Lines 127-132: the session lookup, then the status of the resolved workflow.
open_check(q, found, wf_status) ==
    IF found # NoSession
    THEN Return(q, already_open_response)
    ELSE IF wf_status = "deleted"
    THEN Return(q, deleted_response)
    ELSE [q EXCEPT !.pc = "open_provision"]

\* open_provision that does not pass the image of the request body on.
open_provision_no_image(q, outcome, access_path) ==
    LET q1 == [q EXCEPT !.calls = Append(@,
                   <<"start_interactive_session", q.workflow,
                     q.interactive_session_type, NoImage>>)]
    IN  IF outcome = "ok"
        THEN Return(q1, Path(200, access_path))
        ELSE Return([q1 EXCEPT !.raised = outcome],
                    open_except(Exc(outcome, "backend error", <<>>), q1.workflow))

\* open_provision that calls the backend again when the call failed.
open_provision_retry(q, outcome, access_path) ==
    LET q1 == [q EXCEPT !.calls = Append(@,
                   <<"start_interactive_session", q.workflow,
                     q.interactive_session_type, q.image>>)]
    IN  IF outcome = "ok"
        THEN Return(q1, Path(200, access_path))
        ELSE [q1 EXCEPT !.raised = outcome]

\* Lines 134-139: the one backend call and the response built from its result.
open_provision(q, outcome, access_path) ==
    LET q1 == [q EXCEPT !.calls = Append(@,
                   <<"start_interactive_session", q.workflow,
                     q.interactive_session_type, q.image>>)]
    IN  IF outcome = "ok"
        THEN Return(q1, Path(200, access_path))
        ELSE Return([q1 EXCEPT !.raised = outcome],
                    open_except(Exc(outcome, "backend error", <<>>), q1.workflow))

(* ------------------------------------------------------------------ *)
(* close_interactive_session                                           *)
(* ------------------------------------------------------------------ *)

no_open_session_response(ref) ==
    Message(404, "Workflow - {} has no open interactive session.", <<ref>>)

closed_response == Message(200, "The interactive session has been closed", <<>>)

\* The except clauses of close_interactive_session: as those of open.
close_except(e, workflow) ==
    IF e.cls \in {"KeyError", "ValueError"}
    THEN IF workflow = Unbound
         THEN Propagated("UnboundLocalError")
         ELSE Message(IF workflow # None THEN 400 ELSE 404, e.text, e.args)
    ELSE Message(500, e.text, e.args)

\* Lines 210-212: request.args["user"] (KeyError when the parameter is
\* missing), then workflow = None, then the workflow is resolved.
close_resolve(q, store) ==
    IF q.user = NoUser
    THEN Return([q EXCEPT !.raised = "KeyError"],
                close_except(Exc("KeyError", "user", <<>>), q.workflow))
    ELSE LET q0 == [q EXCEPT !.workflow = None, !.resolves = @ + 1]
             res == get_workflow_with_uuid_or_name(q.workflow_id_or_name, q.user, store)
         IN  IF res.raised
             THEN Return([q0 EXCEPT !.raised = res.exc.cls],
                         close_except(res.exc, q0.workflow))
             ELSE [q0 EXCEPT !.workflow = res.workflow, !.pc = "close_lookup"]

\* close_lookup without the test of the lookup's result.
close_lookup_no_test(q, found) ==
    [q EXCEPT !.int_session = found, !.pc = "close_teardown"]

\* close_lookup that turns a deleted workflow away, as open does.
close_lookup_deleted_refused(q, found) ==
    LET q1 == [q EXCEPT !.int_session = found]
    IN  IF found = NoSession
        THEN Return(q1, no_open_session_response(q.workflow_id_or_name))
        ELSE IF status[q.workflow] = "deleted"
        THEN Return(q1, deleted_response)
        ELSE [q1 EXCEPT !.pc = "close_teardown"]

\* Lines 213-224: the session lookup.
close_lookup(q, found) ==
    LET q1 == [q EXCEPT !.int_session = found]
    IN  IF found = NoSession
        THEN Return(q1, no_open_session_response(q.workflow_id_or_name))
        ELSE [q1 EXCEPT !.pc = "close_teardown"]

\* Lines 225-227: the one backend call and the response.
close_teardown(q, outcome) ==
    LET q1 == [q EXCEPT !.calls = Append(@, <<"stop_interactive_session", q.int_session>>)]
    IN  IF outcome = "ok"
        THEN Return(q1, closed_response)
        ELSE Return([q1 EXCEPT !.raised = outcome],
                    close_except(Exc(outcome, "backend error", <<>>), q1.workflow))

(* ------------------------------------------------------------------ *)
(* The state machine                                                   *)
(* ------------------------------------------------------------------ *)

\* The store when the first request arrives. W1 is in any state a workflow
\* can be in: running or deleted, with or without a Session record (a
\* workflow deleted while its session was open keeps the record). W2,
\* another owner's workflow, is running without a session.
InitialIds == {1}
Ids == 1..(Cardinality(InitialIds) + MaxReqs)

Init ==
    /\ status \in [Workflows -> RunStatus]
    /\ status["W2"] = "running"
    /\ sessions \in [Workflows -> SUBSET InitialIds]
    /\ sessions["W2"] = {}
    /\ nextId = Cardinality(InitialIds) + 1
    /\ req = EmptyBag
    /\ arrived = 0
    /\ provisions = [w \in Workflows |-> 0]
    /\ teardowns = [i \in Ids |-> 0]
    /\ lastOp = [w \in Workflows |-> "none"]
    /\ lastOk = [w \in Workflows |-> "none"]

\* The requests being served.
Reqs == BagToSet(req)

\* Request q of the bag moves on and becomes q1.
Step(q, q1) == (req (-) SetToBag({q})) (+) SetToBag({q1})

\* A handler's return and the delivery of its response are one step of the
\* server: while a response is being delivered no other request moves.
Serving == \A q \in Reqs : q.pc # "done"

\* History read when a close request arrives: whether the last backend call
\* for the workflow it names was a successful teardown.
JustClosed(ref) == ref \in Workflows /\ lastOp[ref] = "closed"

\* A request arrives when a worker is free.
Arrives ==
    /\ Serving
    /\ arrived < MaxReqs
    /\ BagCardinality(req) < MaxWorkers

\* POST /workflows/<workflow_id_or_name>/open/<interactive_session_type>?user=
\* arrives and runs up to the resolved workflow.
OpenRequest ==
    /\ Arrives
    /\ \E ref \in RefInputs, user \in Users, t \in SessionTypeInputs,
          image \in ImageInputs, store \in StoreOutcomes :
          LET q == [Idle EXCEPT !.op = "open",
                                !.workflow_id_or_name = ref,
                                !.user = user,
                                !.interactive_session_type = t,
                                !.image = image]
          IN  req' = req (+) SetToBag({open_resolve(q, store)})
    /\ arrived' = arrived + 1
    /\ UNCHANGED <<sessions, status, nextId, provisions, teardowns, lastOp, lastOk>>

\* The request looks the workflow's session up and reads its status.
OpenCheck(q) ==
    /\ Serving
    /\ q.pc = "open_check"
    /\ \E found \in first(q.workflow) :
          LET q1 == [q EXCEPT !.lookup = IF found = NoSession THEN "empty" ELSE "found"]
          IN  req' = Step(q, open_check(q1, found, status[q.workflow]))
    /\ UNCHANGED <<sessions, status, nextId, arrived, provisions, teardowns, lastOp,
                 lastOk>>

\* The request calls the backend, which provisions or fails.
OpenProvision(q) ==
    /\ Serving
    /\ q.pc = "open_provision"
    /\ \E outcome \in {"ok"} \cup BackendErrors, orphan \in BOOLEAN :
          LET w == q.workflow
              b == start_interactive_session(w, outcome, orphan)
          IN  /\ outcome = "ok" => ~orphan
              /\ sessions' = b.sessions
              /\ nextId' = b.nextId
              /\ req' = Step(q, open_provision(q, outcome, b.access_path))
              /\ provisions' = [provisions EXCEPT ![w] = @ + 1]
              /\ lastOp' = [lastOp EXCEPT ![w] = IF outcome = "ok" THEN "opened" ELSE "open_failed"]
              /\ lastOk' = [lastOk EXCEPT ![w] = IF outcome = "ok" THEN "open" ELSE @]
    /\ UNCHANGED <<status, arrived, teardowns>>

\* POST /workflows/<workflow_id_or_name>/close?user= arrives and runs up to
\* the resolved workflow.
CloseRequest ==
    /\ Arrives
    /\ \E ref \in RefInputs, user \in Users \cup {NoUser}, store \in StoreOutcomes :
          LET q == [Idle EXCEPT !.op = "close",
                                !.workflow_id_or_name = ref,
                                !.user = user,
                                !.afterClose = JustClosed(ref)]
          IN  req' = req (+) SetToBag({close_resolve(q, store)})
    /\ arrived' = arrived + 1
    /\ UNCHANGED <<sessions, status, nextId, provisions, teardowns, lastOp, lastOk>>

\* CloseLookup in which the handler deletes the record it found itself.
CloseLookup_deleting(q) ==
    /\ Serving
    /\ q.pc = "close_lookup"
    /\ \E found \in first(q.workflow) :
          LET q1 == [q EXCEPT
                      !.lookup = IF found = NoSession THEN "empty" ELSE "found",
                      !.afterClose = @ /\ lastOp[q.workflow] = "closed"]
          IN  /\ req' = Step(q, close_lookup(q1, found))
              /\ sessions' = [sessions EXCEPT ![q.workflow] = @ \ {found}]
    /\ UNCHANGED <<status, nextId, arrived, provisions, teardowns, lastOp, lastOk>>

\* The request looks the workflow's session up.
CloseLookup(q) ==
    /\ Serving
    /\ q.pc = "close_lookup"
    /\ \E found \in first(q.workflow) :
          LET q1 == [q EXCEPT
                      !.lookup = IF found = NoSession THEN "empty" ELSE "found",
                      !.afterClose = @ /\ lastOp[q.workflow] = "closed"]
          IN  req' = Step(q, close_lookup(q1, found))
    /\ UNCHANGED <<sessions, status, nextId, arrived, provisions, teardowns, lastOp,
                 lastOk>>

\* CloseTeardown that reads the workflow's session again when it calls the
\* backend, instead of using the one its lookup returned.
CloseTeardown_requery(q) ==
    /\ Serving
    /\ q.pc = "close_teardown"
    /\ LET w == q.workflow
       IN  \E id \in first(w) : \E outcome \in stop_outcomes(w, id) :
              /\ sessions' = stop_interactive_session(w, id, outcome)
              /\ req' = Step(q, close_teardown(q, outcome))
              /\ teardowns' = [teardowns EXCEPT ![id] = @ + 1]
              /\ lastOp' = [lastOp EXCEPT ![w] = IF outcome = "ok" THEN "closed" ELSE @]
              /\ lastOk' = [lastOk EXCEPT ![w] = IF outcome = "ok" THEN "close" ELSE @]
    /\ UNCHANGED <<status, nextId, arrived, provisions>>

\* CloseTeardown that tears down every session of the workflow, not the one
\* its lookup returned.
CloseTeardown_all(q) ==
    /\ Serving
    /\ q.pc = "close_teardown"
    /\ LET w == q.workflow
           id == q.int_session
       IN  \E outcome \in stop_outcomes(w, id) :
              /\ sessions' = IF outcome = "ok" THEN [sessions EXCEPT ![w] = {}]
                                               ELSE sessions
              /\ req' = Step(q, close_teardown(q, outcome))
              /\ teardowns' = [teardowns EXCEPT ![id] = @ + 1]
              /\ lastOp' = [lastOp EXCEPT ![w] = IF outcome = "ok" THEN "closed" ELSE @]
              /\ lastOk' = [lastOk EXCEPT ![w] = IF outcome = "ok" THEN "close" ELSE @]
    /\ UNCHANGED <<status, nextId, arrived, provisions>>

\* The request calls the backend, which tears the session down or fails.
CloseTeardown(q) ==
    /\ Serving
    /\ q.pc = "close_teardown"
    /\ LET w == q.workflow
           id == q.int_session
       IN  \E outcome \in stop_outcomes(w, id) :
              /\ sessions' = stop_interactive_session(w, id, outcome)
              /\ req' = Step(q, close_teardown(q, outcome))
              /\ teardowns' = [teardowns EXCEPT ![id] = @ + 1]
              /\ lastOp' = [lastOp EXCEPT ![w] = IF outcome = "ok" THEN "closed" ELSE @]
              /\ lastOk' = [lastOk EXCEPT ![w] = IF outcome = "ok" THEN "close" ELSE @]
    /\ UNCHANGED <<status, nextId, arrived, provisions>>

\* The response is delivered: the request is over and its worker is free.
Reply(q) ==
    /\ q.pc = "done"
    /\ req' = req (-) SetToBag({q})
    /\ UNCHANGED <<sessions, status, nextId, arrived, provisions, teardowns, lastOp,
                 lastOk>>

Next ==
    \/ OpenRequest
    \/ CloseRequest
    \/ \E q \in Reqs : OpenCheck(q)
    \/ \E q \in Reqs : OpenProvision(q)
    \/ \E q \in Reqs : CloseLookup(q)
    \/ \E q \in Reqs : CloseTeardown(q)
    \/ \E q \in Reqs : Reply(q)

Spec == Init /\ [][Next]_vars

\* Requests processed one at a time: a request arrives only when no other
\* is being served.
SeqOpenRequest == req = EmptyBag /\ OpenRequest

SeqCloseRequest == req = EmptyBag /\ CloseRequest

NextSeq ==
    \/ SeqOpenRequest
    \/ SeqCloseRequest
    \/ \E q \in Reqs : OpenCheck(q)
    \/ \E q \in Reqs : OpenProvision(q)
    \/ \E q \in Reqs : CloseLookup(q)
    \/ \E q \in Reqs : CloseTeardown(q)
    \/ \E q \in Reqs : Reply(q)

SeqSpec == Init /\ [][NextSeq]_vars

TypeOK ==
    /\ status \in [Workflows -> RunStatus]
    /\ \A w \in Workflows : sessions[w] \subseteq 1..(nextId - 1)
    /\ BagCardinality(req) <= MaxWorkers
    /\ \A q \in Reqs : q.pc \in
         {"open_check", "open_provision", "close_lookup", "close_teardown", "done"}

(* ------------------------------------------------------------------ *)
(* Properties                                                          *)
(* ------------------------------------------------------------------ *)

IsOpen(r) == r.op = "open"
IsClose(r) == r.op = "close"
Done(r) == r.pc = "done"

\* The pair (workflow_id_or_name, user) of request r names a workflow of that user.
Owned(r) ==
    /\ r.workflow_id_or_name \in Workflows
    /\ owner[r.workflow_id_or_name] = r.user

\* The workflow request r names has a Session record.
HasSession(r) == sessions[r.workflow_id_or_name] # {}

KnownType(r) == \E i \in DOMAIN InteractiveSessionType :
                    InteractiveSessionType[i] = r.interactive_session_type

\* C1: in every reachable state every workflow has at most one Session record.
C1_AtMostOneSession == \A w \in Workflows : Cardinality(sessions[w]) <= 1

\* C2: the existence check of open is a check-then-act without mutual
\* exclusion: an open request whose own lookup found no session (and whose
\* workflow is not deleted) goes on to the backend's provision, one call,
\* whatever the other requests in flight are doing; so two requests for one
\* workflow can both pass the check and both provision.
C2_CheckThenAct ==
    \A r \in Reqs :
        (IsOpen(r) /\ r.lookup = "empty" /\ status[r.workflow] # "deleted")
            => /\ r.pc \in {"open_provision", "done"}
               /\ Done(r) => Len(r.calls) = 1

\* C2, the state of the race: provision was invoked twice for a workflow
\* that now has two Session records.
C2_TwoSessions ==
    \E w \in Workflows : Cardinality(sessions[w]) = 2 /\ provisions[w] = 2

\* C3 as stated: an open for a workflow that has a Session (when the handler
\* looks it up or, for a request that ends before the lookup, when it
\* arrives) always ends with "Interactive session is already open" (404)
\* and without a provision call.
C3_Original ==
    \A r \in Reqs :
        (IsOpen(r) /\ Done(r) /\ Owned(r) /\ r.raised = ""
         /\ (r.lookup = "found" \/ (r.lookup = "none" /\ HasSession(r))))
            => r.resp = already_open_response /\ r.calls = <<>>

\* C3 amended: an open with a known session type whose workflow resolves for
\* the owner and whose session lookup returns a Session ends, in that step,
\* with 404 "Interactive session is already open" and makes no provision call.
C3_AlreadyOpen ==
    \A r \in Reqs :
        (IsOpen(r) /\ r.lookup = "found")
            => /\ Done(r)
               /\ r.resp.status = 404
               /\ r.resp.key = "message"
               /\ r.resp.text = "Interactive session is already open"
               /\ r.calls = <<>>

\* C3, its case: a second open, after a successful open and before any
\* close, is turned away.
C3_SecondOpen ==
    \E r \in Reqs :
        /\ IsOpen(r) /\ Done(r) /\ r.lookup = "found"
        /\ lastOp[r.workflow] = "opened"
        /\ r.resp.text = "Interactive session is already open"

\* C4: a close whose session lookup returns no Session ends, in that step,
\* with 404 and the message naming the workflow reference, and makes no
\* teardown call.
C4_NoOpenSession ==
    \A r \in Reqs :
        (IsClose(r) /\ r.lookup = "empty")
            => /\ Done(r)
               /\ r.resp.status = 404
               /\ r.resp.key = "message"
               /\ r.resp.text = "Workflow - {} has no open interactive session."
               /\ r.resp.args = <<r.workflow_id_or_name>>
               /\ r.calls = <<>>

\* C4, its case: a close of a workflow without a session was answered.
C4_ClosedNothing ==
    \E r \in Reqs :
        /\ IsClose(r) /\ Done(r) /\ r.lookup = "empty"
        /\ sessions[r.workflow] = {}
        /\ r.resp.status = 404

\* C5 as stated: an open for a deleted workflow always ends with
\* "Interactive session can't be opened from a deleted workflow", whatever
\* the session type and whether or not the workflow has a Session.
C5_Original ==
    \A r \in Reqs :
        (IsOpen(r) /\ Done(r) /\ Owned(r)
         /\ status[r.workflow_id_or_name] = "deleted" /\ r.raised = "")
            => r.resp = deleted_response /\ r.calls = <<>>

\* C5 amended: an open for a deleted workflow never calls provision; it ends
\* with the WorkflowDeleted 404 when its session type is known, the workflow
\* resolves and the lookup finds no Session, with the unknown-type 404 when
\* the type is unknown, and with the already-open 404 when the lookup finds
\* a Session.
C5_Deleted ==
    \A r \in Reqs :
        (IsOpen(r) /\ Owned(r) /\ status[r.workflow_id_or_name] = "deleted")
            => /\ r.calls = <<>>
               /\ r.pc # "open_provision"
               /\ r.lookup = "empty" =>
                    /\ Done(r)
                    /\ r.resp.status = 404
                    /\ r.resp.text =
                         "Interactive session can't be opened from a deleted workflow"
               /\ r.lookup = "found" =>
                    r.resp.text = "Interactive session is already open"
               /\ (Done(r) /\ ~KnownType(r)) =>
                    r.resp.text =
                      "Interactive session type {} not found, try with one of: {}"

\* C5, its case: an open for a deleted workflow without a session was
\* answered WorkflowDeleted.
C5_DeletedRefused ==
    \E r \in Reqs :
        /\ IsOpen(r) /\ Done(r) /\ r.lookup = "empty"
        /\ status[r.workflow] = "deleted"
        /\ r.resp.status = 404

\* C6: an open with a session type that is no member of the enumeration ends
\* with 404 and a message carrying the rejected value followed by exactly
\* the members' names, whatever the workflow reference and the owner, with
\* no resolve call and no backend call.
C6_UnknownType ==
    \A r \in Reqs :
        (IsOpen(r) /\ ~KnownType(r))
            => /\ Done(r)
               /\ r.resp.status = 404
               /\ r.resp.key = "message"
               /\ Len(r.resp.args) = 1 + Len(InteractiveSessionType)
               /\ r.resp.args[1] = r.interactive_session_type
               /\ \A i \in DOMAIN InteractiveSessionType :
                      r.resp.args[i + 1] = InteractiveSessionType[i]
               /\ r.resolves = 0
               /\ r.workflow = Unbound
               /\ r.calls = <<>>

\* C6, its case: an unknown type was refused for a reference and a user that
\* do not resolve.
C6_Refused ==
    \E r \in Reqs :
        /\ IsOpen(r) /\ Done(r) /\ ~KnownType(r) /\ ~Owned(r)
        /\ r.resp.status = 404

\* C7: when the workflow does not resolve for the owner (the resolve call
\* raises its not-found error), open with a known type and close both end
\* with 404 and a message.
C7_WorkflowNotFound ==
    \A r \in Reqs :
        (Done(r) /\ r.resolves = 1 /\ ~Owned(r) /\ r.raised = "ValueError")
            => r.resp.status = 404 /\ r.resp.key = "message"

\* C8: every request ends in a structured outcome: one of the statuses 200,
\* 400, 404, 500 with a body carrying "path" or "message"; no exception
\* leaves a handler.
C8_StructuredOutcome ==
    \A r \in Reqs :
        Done(r) => /\ r.resp.status \in {200, 400, 404, 500}
                   /\ r.resp.key \in {"path", "message"}

\* C9: a close that arrives after a successful close of the same workflow,
\* with no provision for the workflow since, ends with 404 NoOpenSession and
\* makes no teardown call.
C9_SecondClose ==
    \A r \in Reqs :
        (IsClose(r) /\ Done(r) /\ r.lookup # "none" /\ r.afterClose)
            => /\ r.resp = no_open_session_response(r.workflow_id_or_name)
               /\ r.calls = <<>>

\* C10: an open that passed its checks (known type, workflow resolved, no
\* Session found, not deleted) and has returned made exactly the backend call
\* (workflow, session type, image of the request); when the backend
\* succeeded the answer is 200 with "path" the access path the backend
\* returned, and the workflow has that Session.
C10_Provisioned ==
    \A r \in Reqs :
        (IsOpen(r) /\ Done(r) /\ r.lookup = "empty"
         /\ status[r.workflow] # "deleted")
            => /\ r.calls =
                    << <<"start_interactive_session", r.workflow_id_or_name,
                         r.interactive_session_type, r.image>> >>
               /\ r.raised = "" =>
                    /\ r.resp.status = 200
                    /\ r.resp.key = "path"
                    /\ r.resp.path = AccessPath(nextId - 1)
                    /\ (nextId - 1) \in sessions[r.workflow]

\* C10, its case: an open with an image override succeeded.
C10_Opened ==
    \E r \in Reqs :
        /\ IsOpen(r) /\ Done(r) /\ r.resp.status = 200
        /\ r.image # NoImage
        /\ sessions[r.workflow] # {}

\* The failure a finished request ended with is one of the validation
\* outcomes of the handlers.
ValidationTexts ==
    {"Interactive session type {} not found, try with one of: {}",
     "Interactive session is already open",
     "Interactive session can't be opened from a deleted workflow",
     "Workflow - {} has no open interactive session."}

ValueClass == {"KeyError", "ValueError"}

\* C11: the failure of a finished request is classified: a KeyError or
\* ValueError raised once the workflow was resolved gives 400, one raised
\* when no workflow was resolved gives 404, every other exception (a failing
\* backend call or store) gives 500, each with a message carrying the
\* exception's description; a validation failure gives 404.
C11_Classification ==
    \A r \in Reqs :
        Done(r) =>
            /\ (r.raised \in ValueClass /\ r.workflow \in Workflows)
                   => r.resp.status = 400 /\ r.resp.key = "message"
            /\ (r.raised \in ValueClass /\ r.workflow \notin Workflows)
                   => r.resp.status = 404 /\ r.resp.key = "message"
            /\ (r.raised # "" /\ r.raised \notin ValueClass)
                   => /\ r.resp.status = 500
                      /\ r.resp.key = "message"
                      /\ r.resp.text \in {"backend error", "database error"}
            /\ (r.raised = "" /\ r.resp.status # 200)
                   => r.resp.status = 404 /\ r.resp.text \in ValidationTexts

\* C12: no retry: a request makes at most one backend call, provision for an
\* open and teardown for a close, and has returned once the call is made;
\* when the call failed the request ended with a failure outcome (400 or 500
\* with the failure's message).
C12_NoRetry ==
    \A r \in Reqs :
        /\ Len(r.calls) <= 1
        /\ \A i \in DOMAIN r.calls :
              r.calls[i][1] = IF IsOpen(r) THEN "start_interactive_session"
                                           ELSE "stop_interactive_session"
        /\ Len(r.calls) = 1 =>
              /\ Done(r)
              /\ r.raised # "" =>
                    /\ r.resp.status \in {400, 500}
                    /\ r.resp.key = "message"
                    /\ r.resp.text = "backend error"

\* C12, its case: an open whose one provision call failed was answered with
\* the failure.
C12_FailedOnce ==
    \E r \in Reqs :
        /\ IsOpen(r) /\ Done(r) /\ Len(r.calls) = 1
        /\ r.raised = "Exception"
        /\ r.resp.status = 500
        /\ provisions[r.workflow] = 1

\* C13: ownership gate: a request whose (reference, user) pair names no
\* workflow of that user has returned when it arrives, without a resolved
\* workflow, a session lookup or a backend call; and every step that changes
\* the Session records is the backend call of a request whose pair does name
\* a workflow of its user, changing the records of that workflow only.
C13_OwnershipGate ==
    [][ /\ \A r \in BagToSet(req') :
              ~Owned(r) => /\ Done(r)
                           /\ r.workflow \notin Workflows
                           /\ r.lookup = "none"
                           /\ r.int_session = NoSession
                           /\ r.calls = <<>>
        /\ sessions' # sessions =>
              \E q \in Reqs :
                  /\ Owned(q)
                  /\ q.pc \in {"open_provision", "close_teardown"}
                  /\ q.workflow = q.workflow_id_or_name
                  /\ \A w \in Workflows \ {q.workflow} : sessions'[w] = sessions[w]
      ]_vars

\* C13, its case: a user's close of another owner's workflow, which has a
\* session, ended without one.
C13_NotTheOwner ==
    \E r \in Reqs :
        /\ IsClose(r) /\ Done(r) /\ ~Owned(r)
        /\ r.workflow_id_or_name \in Workflows
        /\ r.user \in Users
        /\ sessions[r.workflow_id_or_name] # {}
        /\ r.calls = <<>>

\* C14: open runs its checks in the order session type, resolve, session
\* lookup, status, provision, and stops at the first that fails with that
\* check's outcome: an unknown type ends with UnknownSessionType before any
\* resolve; a reference that does not resolve ends with 404 before any
\* lookup; a lookup that finds a Session ends with SessionAlreadyOpen
\* whatever the status; a deleted workflow without a Session ends with
\* WorkflowDeleted; and no later step is made after a failed check.
C14_CheckOrder ==
    \A r \in Reqs :
        IsOpen(r) =>
            /\ ~KnownType(r) =>
                  /\ Done(r)
                  /\ r.resp = unknown_type_response(r.interactive_session_type)
                  /\ r.resolves = 0
            /\ r.resolves = 1 => KnownType(r)
            /\ (r.resolves = 1 /\ r.workflow \notin Workflows) =>
                  /\ Done(r)
                  /\ r.resp.status = IF r.raised = "ValueError" THEN 404 ELSE 500
                  /\ r.resp.key = "message"
                  /\ r.lookup = "none"
            /\ r.lookup # "none" => r.resolves = 1 /\ r.workflow \in Workflows
            /\ r.lookup = "found" =>
                  /\ Done(r)
                  /\ r.resp = already_open_response
            /\ (r.lookup = "empty" /\ status[r.workflow] = "deleted") =>
                  /\ Done(r)
                  /\ r.resp = deleted_response
            /\ (r.pc = "open_provision" \/ r.calls # <<>>) =>
                  /\ r.lookup = "empty"
                  /\ status[r.workflow] # "deleted"
            /\ (Done(r) /\ r.resp.status # 200 /\ r.resp.text # "backend error")
                  => r.calls = <<>>

\* C15: the handlers never write the Session Record Store: the set of Session
\* records changes only in the step in which a request makes its backend
\* call (provision or teardown), and the workflows' statuses never change; a
\* request that returns without a backend call (every validation failure)
\* leaves the records as they were, and so does an open whose provision call
\* failed when the backend created no record in it.
C15_BackendOnly ==
    [][ /\ status' = status
        /\ sessions' # sessions =>
              \E q \in Reqs :
                  /\ q.pc \in {"open_provision", "close_teardown"}
                  /\ q.calls = <<>>
                  /\ \E r \in BagToSet(req') :
                        /\ Done(r)
                        /\ Len(r.calls) = 1
                        /\ r.workflow = q.workflow
        /\ \A r \in BagToSet(req') :
              (Done(r) /\ r.calls = <<>>) => sessions' = sessions
        /\ \A r \in BagToSet(req') :
              (Done(r) /\ IsOpen(r) /\ r.raised # "" /\ nextId' = nextId)
                  => sessions' = sessions
      ]_vars

\* C15, its case: an open ended with the failure of its provision call, in
\* which the backend created no record, and the workflow has none.
C15_FailedNoRecord ==
    \E r \in Reqs :
        /\ IsOpen(r) /\ Done(r) /\ Len(r.calls) = 1
        /\ r.raised # ""
        /\ nextId = Cardinality(InitialIds) + 1
        /\ sessions[r.workflow] = {}

\* The close requests that have read session id and have yet to call the
\* backend's teardown for it.
Holding(id) == {q \in Reqs : q.pc = "close_teardown" /\ q.int_session = id}

C18_StatusIndependent ==
    \A r \in Reqs :
        (IsClose(r) /\ r.lookup = "found") =>
            /\ r.workflow \in Workflows
            /\ r.int_session # NoSession
            /\ r.pc \in {"close_teardown", "done"}
            /\ Done(r) =>
                  /\ r.calls = << <<"stop_interactive_session", r.int_session>> >>
                  /\ r.raised = "" => r.resp = closed_response
                  /\ r.raised # "" => r.resp.text = "backend error"

\* C18, its case: the session of a deleted workflow was closed.
C18_ClosedDeleted ==
    \E r \in Reqs :
        /\ IsClose(r) /\ Done(r) /\ r.resp = closed_response
        /\ status[r.workflow] = "deleted"
        /\ sessions[r.workflow] = {}
        /\ teardowns[r.int_session] = 1

\* C19 as stated, requests processed one at a time: a successful open leaves
\* the workflow with the one Session it created and a successful close
\* leaves it with none, and the successes of a workflow alternate: a
\* successful open is never preceded by another successful open of the
\* workflow without a successful close in between, nor a successful close by
\* another successful close without a successful open in between.
C19_Original ==
    [][ \A r \in BagToSet(req') :
          (Done(r) /\ r.resp.status = 200) =>
              /\ IsOpen(r) => /\ lastOk[r.workflow] # "open"
                              /\ sessions[r.workflow] = {}
                              /\ sessions'[r.workflow] = {nextId}
              /\ IsClose(r) => /\ lastOk[r.workflow] # "close"
                               /\ sessions'[r.workflow] = {}
      ]_vars

\* C19 amended, requests processed one at a time: a successful open finds
\* the workflow without a Session and leaves it with the one it created; a
\* successful close leaves it with none; a successful open never follows a
\* successful open of the workflow without a successful close in between;
\* and a successful close follows a successful close without a successful
\* open in between only when the last backend call for the workflow was a
\* failed provision, which left the record that is closed.
C19_RoundTrip ==
    [][ \A r \in BagToSet(req') :
          (Done(r) /\ r.resp.status = 200) =>
              /\ IsOpen(r) => /\ lastOk[r.workflow] # "open"
                              /\ sessions[r.workflow] = {}
                              /\ sessions'[r.workflow] = {nextId}
              /\ IsClose(r) => /\ sessions'[r.workflow] = {}
                               /\ lastOk[r.workflow] = "close" =>
                                     /\ lastOp[r.workflow] = "open_failed"
                                     /\ provisions[r.workflow] >= 1
                                     /\ r.int_session \notin InitialIds
      ]_vars

\* C19, its case: a workflow was opened, closed and opened again, one request
\* after the other; the second open has just been answered.
C19_OpenedAgain ==
    \E r \in Reqs :
        /\ IsOpen(r) /\ Done(r) /\ r.resp.status = 200
        /\ provisions[r.workflow] = 2
        /\ teardowns[nextId - 2] = 1
        /\ sessions[r.workflow] = {nextId - 1}
        /\ lastOk[r.workflow] = "open"

====
